---- MODULE Spec2Model ----
(***************************************************************************)
(* Model of src/resources.rs: the asset loaders load_model (OBJ + MTL +    *)
(* textures) and load_gltf.  One call of one loader is followed from its   *)
(* entry to the way it ends: a returned value (Ok), a returned error (Err) *)
(* or a panic.  Every .await, every `?`, every unwrap and every indexing   *)
(* expression of the source is a step or a branch of a step.               *)
(*                                                                         *)
(* The outcomes of the collaborators that are not part of resources.rs     *)
(* (file system / network, tobj, gltf, texture::Texture::from_bytes) are   *)
(* chosen nondeterministically when the code asks for them.                *)
(***************************************************************************)
EXTENDS Integers, Sequences, FiniteSets

\* ---- bounds of the model ------------------------------------------------
MaxMtlLibs == 1      \* mtllib statements in one OBJ text
MaxMaterials == 2    \* materials declared by one MTL text
MaxMeshes == 2       \* submeshes (tobj models) of one OBJ text
MaxVerts == 2        \* vertices of one submesh
MaxTris == 1         \* triangles of one submesh
MaxGltfMeshes == 2   \* meshes of one glTF document
MaxPrimitives == 2   \* primitives of one glTF mesh

\* Option::None of material_id, indices(), name()
None == -1

VARIABLES
    fn,            \* the loader that was called: "none", "load_model", "load_gltf"
    pc,            \* position inside the loader
    result,        \* how the call ended: [kind, err]
    mtlSeen,       \* mtllib statements tobj has handed to the callback
    matErr,        \* tobj's material result is Err (an MTL text did not parse)
    objMaterials,  \* obj_materials: the parsed tobj materials
    models,        \* models: the parsed tobj submeshes
    materials,     \* materials: Vec<model::Material> built so far
    texOutcomes,   \* answers of the asset source to the texture retrievals, in order
    retrieving,    \* material indices whose texture retrieval is in flight
    allocating,    \* GPU-allocator calls of the material loop in progress
    meshes,        \* model::Mesh values built so far
    buffers,       \* descriptors of the buffers handed to device.create_buffer_init
    gltf,          \* the opened glTF document (a sequence of meshes)
    gmeshes        \* meshes: Vec<GLTFMesh> built so far

vars == <<fn, pc, result, mtlSeen, matErr, objMaterials, models, materials,
          texOutcomes, retrieving, allocating, meshes, buffers, gltf, gmeshes>>

modelVars == <<mtlSeen, matErr, objMaterials, models, materials, texOutcomes,
               retrieving, allocating, meshes, buffers>>
gltfVars == <<gltf, gmeshes>>

NoResult == [kind |-> "none", err |-> "none"]
Ok == [kind |-> "Ok", err |-> "none"]
Err(e) == [kind |-> "Err", err |-> e]
Panic(site) == [kind |-> "Panic", err |-> site]

SeqsUpTo(S, n) == UNION {[1..m -> S] : m \in 0..n}

\* Option::unwrap_or
unwrap_or(opt, default) == IF opt = None THEN default ELSE opt

\* ---- what tobj can hand back ---------------------------------------------
\* A submesh as tobj builds it with triangulate and single_index: positions
\* holds 3 floats per vertex; texcoords (2 per vertex) and normals (3 per
\* vertex) hold data only for the vertices whose face corner named one, so
\* they may be shorter than the position stream or empty; indices holds 3
\* entries per triangle, each a vertex number.  The floats are stand-ins
\* that differ from slot to slot.
TobjMesh(nv, ntc, nn, ntri, mat) ==
    [positions |-> [k \in 1..(3 * nv) |-> 100 + k],
     texcoords |-> [k \in 1..(2 * ntc) |-> 200 + k],
     normals |-> [k \in 1..(3 * nn) |-> 300 + k],
     indices |-> [j \in 1..(3 * ntri) |-> (j - 1) % nv],
     material_id |-> mat]

\* material_id is None or the number of a material of the loaded MTL texts
TobjMeshes(nmat) ==
    {TobjMesh(nv, ntc, nn, ntri, mat) :
        nv \in 1..MaxVerts, ntc \in 0..MaxVerts, nn \in 0..MaxVerts,
        ntri \in 1..MaxTris, mat \in {None} \cup (0..(nmat - 1))}

TobjModels(nmat) ==
    SeqsUpTo({m \in TobjMeshes(nmat) :
                 /\ Len(m.texcoords) * 3 <= Len(m.positions) * 2
                 /\ Len(m.normals) <= Len(m.positions)}, MaxMeshes)

TobjMaterial(n) == [name |-> n, diffuse_texture |-> n]

\* ---- what the gltf crate can hand back -----------------------------------
GltfPrimitives ==
    {[indices |-> None, view |-> FALSE, source |-> "none"],
     [indices |-> 0, view |-> FALSE, source |-> "none"],
     [indices |-> 0, view |-> TRUE, source |-> "Bin"],
     [indices |-> 0, view |-> TRUE, source |-> "Uri"]}

GltfMeshes ==
    {[name |-> n, primitives |-> ps] :
        n \in {None, 1}, ps \in SeqsUpTo(GltfPrimitives, MaxPrimitives)}

GltfDocuments == SeqsUpTo(GltfMeshes, MaxGltfMeshes)

Init ==
    /\ fn = "none"
    /\ pc = "idle"
    /\ result = NoResult
    /\ mtlSeen = 0
    /\ matErr = FALSE
    /\ objMaterials = <<>>
    /\ models = <<>>
    /\ materials = <<>>
    /\ texOutcomes = <<>>
    /\ retrieving = {}
    /\ allocating = {}
    /\ meshes = <<>>
    /\ buffers = <<>>
    /\ gltf = <<>>
    /\ gmeshes = <<>>

\* the call ends: by a return (Ok, Err) or by a panic
End(r) ==
    /\ pc' = "done"
    /\ result' = r

\* ======================= load_model =======================================

CallLoadModel ==
    /\ fn = "none"
    /\ fn' = "load_model"
    /\ pc' = "load_obj"
    /\ UNCHANGED <<result, modelVars, gltfVars>>

\* line 78: load_string(file_name).await? , the OBJ text arrives
LoadObjOk ==
    /\ fn = "load_model" /\ pc = "load_obj"
    /\ pc' = "parse"
    /\ UNCHANGED <<fn, result, modelVars, gltfVars>>

\* line 78: load_string(file_name).await? , the retrieval fails
LoadObjErr ==
    /\ fn = "load_model" /\ pc = "load_obj"
    /\ End(Err("NotFound"))
    /\ UNCHANGED <<fn, modelVars, gltfVars>>

\* lines 82-94: tobj meets malformed OBJ text; `.await?` returns its error
ParseObjErr ==
    /\ fn = "load_model" /\ pc = "parse"
    /\ End(Err("ParseError"))
    /\ UNCHANGED <<fn, modelVars, gltfVars>>

\* lines 82-90: tobj meets a mtllib statement and calls the closure, which
\* starts load_string(&p)
ParseMtllib ==
    /\ fn = "load_model" /\ pc = "parse"
    /\ mtlSeen < MaxMtlLibs
    /\ mtlSeen' = mtlSeen + 1
    /\ pc' = "mtl_callback"
    /\ UNCHANGED <<fn, result, matErr, objMaterials, models, materials,
                   texOutcomes, retrieving, allocating, meshes, buffers, gltfVars>>

\* line 90: load_string(&p).await.unwrap() , the MTL retrieval fails
MtlLoadPanic ==
    /\ fn = "load_model" /\ pc = "mtl_callback"
    /\ End(Panic("unwrap:90"))
    /\ UNCHANGED <<fn, modelVars, gltfVars>>

\* line 91: tobj::load_mtl_buf fails; tobj keeps the error as the material
\* result and goes on parsing the OBJ text
MtlParseErr ==
    /\ fn = "load_model" /\ pc = "mtl_callback"
    /\ matErr' = TRUE
    /\ pc' = "parse"
    /\ UNCHANGED <<fn, result, mtlSeen, objMaterials, models, materials,
                   texOutcomes, retrieving, allocating, meshes, buffers, gltfVars>>

\* line 91: tobj::load_mtl_buf yields n materials, appended to those of the
\* MTL texts loaded before
MtlParsed ==
    /\ fn = "load_model" /\ pc = "mtl_callback"
    /\ \E n \in 0..MaxMaterials :
          objMaterials' = objMaterials \o
              [i \in 1..n |-> TobjMaterial(Len(objMaterials) + i - 1)]
    /\ pc' = "parse"
    /\ UNCHANGED <<fn, result, mtlSeen, matErr, models, materials,
                   texOutcomes, retrieving, allocating, meshes, buffers, gltfVars>>

\* lines 82-94: tobj reaches the end of the OBJ text and returns
\* (models, obj_materials)
ParseObjOk ==
    /\ fn = "load_model" /\ pc = "parse"
    /\ \E ms \in TobjModels(Len(objMaterials)) : models' = ms
    /\ pc' = "materials"
    /\ UNCHANGED <<fn, result, mtlSeen, matErr, objMaterials, materials,
                   texOutcomes, retrieving, allocating, meshes, buffers, gltfVars>>

\* line 97: `obj_materials?` , the material result is an error
MaterialsErr ==
    /\ fn = "load_model" /\ pc = "materials"
    /\ matErr
    /\ End(Err("ParseError"))
    /\ UNCHANGED <<fn, modelVars, gltfVars>>

\* lines 97-98: the retrievals begun when the loop takes up material k of n:
\* the body awaits load_texture before it goes on, so only k's own
TextureLoadsStartedPrefetch(k, n) == {k, k + 1} \cap (0..(n - 1))
TextureLoadsStarted(k, n) == {k}

\* lines 97-98, 68: the loop takes the next material and starts the retrieval
\* of its diffuse texture
MaterialNext ==
    /\ fn = "load_model" /\ pc = "materials"
    /\ ~matErr
    /\ Len(materials) < Len(objMaterials)
    /\ retrieving' = retrieving \cup
                        TextureLoadsStarted(Len(materials), Len(objMaterials))
    /\ pc' = "tex_await"
    /\ UNCHANGED <<fn, result, mtlSeen, matErr, objMaterials, models, materials,
                   texOutcomes, allocating, meshes, buffers, gltfVars>>

\* line 68 and line 98: the `?` on the retrieval returns early on an error
TextureFailedIgnored(outcome) == FALSE
TextureFailed(outcome) == outcome = "absent"

\* line 68: load_binary(file_name).await? completes; on success
\* Texture::from_bytes (line 69) is entered
TexAwait ==
    /\ fn = "load_model" /\ pc = "tex_await"
    /\ Len(materials) \in retrieving
    /\ \E outcome \in {"bytes", "absent"} :
          /\ texOutcomes' = Append(texOutcomes, outcome)
          /\ retrieving' = retrieving \ {Len(materials)}
          /\ IF TextureFailed(outcome)
                THEN /\ End(Err("NotFound"))
                     /\ UNCHANGED allocating
                ELSE /\ pc' = "from_bytes"
                     /\ allocating' = allocating \cup
                                         {<<"from_bytes", Len(materials)>>}
                     /\ UNCHANGED result
    /\ UNCHANGED <<fn, mtlSeen, matErr, objMaterials, models, materials,
                   meshes, buffers, gltfVars>>

\* lines 69, 98: Texture::from_bytes fails; `?` returns its error
FromBytesErr ==
    /\ fn = "load_model" /\ pc = "from_bytes"
    /\ allocating' = allocating \ {<<"from_bytes", Len(materials)>>}
    /\ End(Err("ImageError"))
    /\ UNCHANGED <<fn, mtlSeen, matErr, objMaterials, models, materials,
                   texOutcomes, retrieving, meshes, buffers, gltfVars>>

\* lines 69, 98-99: Texture::from_bytes returns the texture;
\* device.create_bind_group is entered
FromBytesOk ==
    /\ fn = "load_model" /\ pc = "from_bytes"
    /\ allocating' = (allocating \ {<<"from_bytes", Len(materials)>>})
                        \cup {<<"create_bind_group", Len(materials)>>}
    /\ pc' = "bind_group"
    /\ UNCHANGED <<fn, result, mtlSeen, matErr, objMaterials, models, materials,
                   texOutcomes, retrieving, meshes, buffers, gltfVars>>

\* lines 99-118: create_bind_group returns; the material is pushed
BindGroup ==
    /\ fn = "load_model" /\ pc = "bind_group"
    /\ allocating' = allocating \ {<<"create_bind_group", Len(materials)>>}
    /\ materials' = Append(materials,
          [name |-> objMaterials[Len(materials) + 1].name,
           diffuse_texture |-> objMaterials[Len(materials) + 1].diffuse_texture,
           bind_group |-> <<"TextureView", "Sampler">>])
    /\ pc' = "materials"
    /\ UNCHANGED <<fn, result, mtlSeen, matErr, objMaterials, models,
                   texOutcomes, retrieving, meshes, buffers, gltfVars>>

\* lines 97, 121: the material loop has taken every material
MaterialsDone ==
    /\ fn = "load_model" /\ pc = "materials"
    /\ ~matErr
    /\ Len(materials) = Len(objMaterials)
    /\ pc' = "meshes"
    /\ UNCHANGED <<fn, result, modelVars, gltfVars>>

\* lines 124, 127-135: Rust's bounds checks on the slices indexed for the
\* vertex records i = 0 .. positions.len()/3 - 1 (a failed check panics)
IndexInBounds(m) ==
    \A i \in 0..((Len(m.positions) \div 3) - 1) :
        /\ i * 3 + 2 < Len(m.positions)
        /\ i * 2 + 1 < Len(m.texcoords)
        /\ i * 3 + 2 < Len(m.normals)

\* lines 125-137: model::ModelVertex of vertex i (Rust counts from 0, a TLA+
\* sequence from 1)
ModelVertexTexStride(m, i) ==
    [position |-> <<m.positions[i * 3 + 1], m.positions[i * 3 + 2],
                    m.positions[i * 3 + 3]>>,
     tex_coords |-> <<m.texcoords[i + 1], m.texcoords[i + 2]>>,
     normal |-> <<m.normals[i * 3 + 1], m.normals[i * 3 + 2],
                  m.normals[i * 3 + 3]>>]
ModelVertex(m, i) ==
    [position |-> <<m.positions[i * 3 + 1], m.positions[i * 3 + 2],
                    m.positions[i * 3 + 3]>>,
     tex_coords |-> <<m.texcoords[i * 2 + 1], m.texcoords[i * 2 + 2]>>,
     normal |-> <<m.normals[i * 3 + 1], m.normals[i * 3 + 2],
                  m.normals[i * 3 + 3]>>]

\* lines 124-138: vertices
Vertices(m) ==
    [v \in 1..(Len(m.positions) \div 3) |-> ModelVertex(m, v - 1)]

\* lines 140-144: descriptor of the vertex buffer
VertexBufferInit(m) ==
    [label |-> "Vertex Buffer", contents |-> Vertices(m), usage |-> "VERTEX"]

\* lines 145-149: descriptor of the index buffer
IndexBufferInit(m) ==
    [label |-> "Index Buffer", contents |-> m.indices, usage |-> "INDEX"]

\* lines 151-157: model::Mesh; the buffers are named by their place in
\* `buffers`
MeshOf(m, vb, ib) ==
    [vertex_buffer |-> vb,
     index_buffer |-> ib,
     num_elements |-> Len(m.indices),
     material |-> unwrap_or(m.material_id, 0)]

\* lines 123-138: the closure takes the next submesh and an index into
\* texcoords or normals is out of bounds
BuildMeshPanic ==
    /\ fn = "load_model" /\ pc = "meshes"
    /\ Len(meshes) < Len(models)
    /\ ~IndexInBounds(models[Len(meshes) + 1])
    /\ End(Panic("index:127-135"))
    /\ UNCHANGED <<fn, modelVars, gltfVars>>

\* lines 123-158: the closure takes the next submesh, builds its vertices,
\* creates the two buffers and yields the Mesh
BuildMesh ==
    /\ fn = "load_model" /\ pc = "meshes"
    /\ Len(meshes) < Len(models)
    /\ LET m == models[Len(meshes) + 1] IN
          /\ IndexInBounds(m)
          /\ buffers' = buffers \o <<VertexBufferInit(m), IndexBufferInit(m)>>
          /\ meshes' = Append(meshes,
                              MeshOf(m, Len(buffers) + 1, Len(buffers) + 2))
    /\ UNCHANGED <<fn, pc, result, mtlSeen, matErr, objMaterials, models,
                   materials, texOutcomes, retrieving, allocating, gltfVars>>

\* lines 159-161: Ok(model::Model { meshes, materials })
ReturnModel ==
    /\ fn = "load_model" /\ pc = "meshes"
    /\ Len(meshes) = Len(models)
    /\ End(Ok)
    /\ UNCHANGED <<fn, modelVars, gltfVars>>

\* ======================= load_gltf ========================================
\* The statements after line 210 (the buffer source match, the external
\* buffer fetch and slice, create_buffer_init, primitives.push) follow a
\* todo!() that always panics: no execution reaches them, so they are no
\* step of this model.

\* lines 170-173: the wasm32 build of load_gltf is unimplemented!()
CallLoadGltfWasm ==
    /\ fn = "none"
    /\ fn' = "load_gltf"
    /\ End(Panic("unimplemented:172"))
    /\ UNCHANGED <<modelVars, gltfVars>>

\* lines 174-176: the other builds form the path of the file
CallLoadGltfNative ==
    /\ fn = "none"
    /\ fn' = "load_gltf"
    /\ pc' = "gltf_open"
    /\ UNCHANGED <<result, modelVars, gltfVars>>

\* line 179: gltf::Gltf::open(path)? fails (file absent or not valid glTF)
GltfOpenErr ==
    /\ fn = "load_gltf" /\ pc = "gltf_open"
    /\ \E e \in {"NotFound", "ParseError"} : End(Err(e))
    /\ UNCHANGED <<fn, modelVars, gltfVars>>

\* lines 179-183: the document is opened, the accessor table collected
GltfOpenOk ==
    /\ fn = "load_gltf" /\ pc = "gltf_open"
    /\ \E doc \in GltfDocuments : gltf' = doc
    /\ pc' = "gltf_mesh"
    /\ UNCHANGED <<fn, result, modelVars, gmeshes>>

\* lines 184-187: the mesh the outer loop is at, and the primitive the
\* inner loop is at: no primitive is ever pushed, so it is the first
AtPrimitive ==
    /\ fn = "load_gltf"
    /\ Len(gmeshes) < Len(gltf)
    /\ gltf[Len(gmeshes) + 1].primitives # <<>>
CurPrimitive == gltf[Len(gmeshes) + 1].primitives[1]

\* lines 188-191: gltf_primitive.indices() is None; unwrap panics
GltfNoIndicesPanic ==
    /\ pc = "gltf_mesh"
    /\ AtPrimitive
    /\ CurPrimitive.indices = None
    /\ End(Panic("unwrap:191"))
    /\ UNCHANGED <<fn, modelVars, gltfVars>>

\* lines 193-197: the accessor is found (the gltf crate has validated the
\* index) but has no buffer view; unwrap panics
GltfNoViewPanic ==
    /\ pc = "gltf_mesh"
    /\ AtPrimitive
    /\ CurPrimitive.indices # None
    /\ ~CurPrimitive.view
    /\ End(Panic("unwrap:197"))
    /\ UNCHANGED <<fn, modelVars, gltfVars>>

\* lines 197-210: view and buffer are resolved, the attributes looked up,
\* and todo!() panics
GltfTodoPanic ==
    /\ pc = "gltf_mesh"
    /\ AtPrimitive
    /\ CurPrimitive.indices # None
    /\ CurPrimitive.view
    /\ End(Panic("todo:210"))
    /\ UNCHANGED <<fn, modelVars, gltfVars>>

\* lines 185-187, 242: a mesh without primitives is pushed
GltfMeshPush ==
    /\ fn = "load_gltf" /\ pc = "gltf_mesh"
    /\ Len(gmeshes) < Len(gltf)
    /\ gltf[Len(gmeshes) + 1].primitives = <<>>
    /\ gmeshes' = Append(gmeshes,
          [name |-> unwrap_or(gltf[Len(gmeshes) + 1].name, 0),
           primitives |-> <<>>])
    /\ UNCHANGED <<fn, pc, result, modelVars, gltf>>

\* lines 184, 245: the mesh loop ends and todo!() panics
GltfEndPanic ==
    /\ fn = "load_gltf" /\ pc = "gltf_mesh"
    /\ Len(gmeshes) = Len(gltf)
    /\ End(Panic("todo:245"))
    /\ UNCHANGED <<fn, modelVars, gltfVars>>

Next ==
    \/ CallLoadModel \/ LoadObjOk \/ LoadObjErr
    \/ ParseObjErr \/ ParseMtllib \/ MtlLoadPanic \/ MtlParseErr \/ MtlParsed
    \/ ParseObjOk \/ MaterialsErr \/ MaterialNext \/ TexAwait
    \/ FromBytesErr \/ FromBytesOk \/ BindGroup \/ MaterialsDone
    \/ BuildMeshPanic \/ BuildMesh \/ ReturnModel
    \/ CallLoadGltfWasm \/ CallLoadGltfNative \/ GltfOpenErr \/ GltfOpenOk
    \/ GltfNoIndicesPanic \/ GltfNoViewPanic \/ GltfTodoPanic
    \/ GltfMeshPush \/ GltfEndPanic

Spec == Init /\ [][Next]_vars

\* ======================= properties =======================================

Ended == pc = "done"

\* C1: no load_model or load_gltf call ends in a panic: each ends by
\* returning a Model/GLTFModel or an error value.
C1_NoPanic == result.kind # "Panic"

\* C2: when load_gltf meets a primitive without an indices accessor, the
\* load ends by returning a MissingIndices error.
C2_MissingIndices ==
    (Ended /\ AtPrimitive /\ CurPrimitive.indices = None)
        => result = Err("MissingIndices")

\* C3: in every Model load_model returns, every mesh's material is a valid
\* index into the Model's materials (material < materials.len()).
C3_MaterialIndexValid ==
    (fn = "load_model" /\ result.kind = "Ok")
        => \A j \in 1..Len(meshes) :
              meshes[j].material \in 0..(Len(materials) - 1)

\* C4: if the retrieval of a material's diffuse texture fails, the load has
\* stopped at that material with the error returned: no Model, no later
\* material loaded, no later retrieval, no mesh buffer created.
C4_TextureFailureStopsLoad ==
    \A i \in 1..Len(texOutcomes) :
        texOutcomes[i] = "absent"
            => /\ Ended
               /\ result = Err("NotFound")
               /\ Len(texOutcomes) = i
               /\ Len(materials) = i - 1
               /\ retrieving = {}
               /\ meshes = <<>>
               /\ buffers = <<>>

\* a load whose second material's texture is absent, after the first
\* material was loaded, with submeshes waiting to be built
C4_Witness ==
    /\ Len(texOutcomes) = 2
    /\ texOutcomes[2] = "absent"
    /\ Len(materials) = 1
    /\ Len(objMaterials) = 2
    /\ models # <<>>
    /\ result = Err("NotFound")

\* a submesh with position data and no tex-coord data or no normal data
LacksAttribute(m) ==
    /\ Len(m.positions) > 0
    /\ (Len(m.texcoords) = 0 \/ Len(m.normals) = 0)

\* C5: if a parsed submesh has positions but no tex-coords or no normals at
\* all, load_model (once the materials are loaded) ends by returning a
\* MissingAttribute error and builds nothing for that submesh.
C5_MissingAttribute ==
    \A j \in 1..Len(models) :
        (Ended /\ ~matErr /\ Len(materials) = Len(objMaterials)
           /\ LacksAttribute(models[j]))
            => /\ result = Err("MissingAttribute")
               /\ Len(meshes) < j

\* the attribute streams of a submesh are aligned: one tex-coord pair and
\* one normal per position
Aligned(m) ==
    /\ Len(m.texcoords) * 3 = Len(m.positions) * 2
    /\ Len(m.normals) = Len(m.positions)

\* C6: for every submesh with N triangles and aligned streams, the vertex
\* buffer holds positions.len()/3 records, record i being
\* (position[3i..3i+3], tex_coord[2i..2i+2], normal[3i..3i+3]), the index
\* buffer holds the parsed indices unchanged and num_elements is 3N.
C6_VertexLayout ==
    \A j \in 1..Len(meshes) :
        LET m == models[j]
            vb == buffers[meshes[j].vertex_buffer].contents
            ib == buffers[meshes[j].index_buffer].contents
            N == Len(m.indices) \div 3
        IN Aligned(m) =>
            /\ Len(vb) = Len(m.positions) \div 3
            /\ \A i \in 0..(Len(vb) - 1) :
                  /\ vb[i + 1].position = SubSeq(m.positions, 3 * i + 1, 3 * i + 3)
                  /\ vb[i + 1].tex_coords = SubSeq(m.texcoords, 2 * i + 1, 2 * i + 2)
                  /\ vb[i + 1].normal = SubSeq(m.normals, 3 * i + 1, 3 * i + 3)
            /\ ib = m.indices
            /\ meshes[j].num_elements = 3 * N

\* a returned Model with a submesh of two vertices and one triangle
C6_Witness ==
    /\ fn = "load_model" /\ result.kind = "Ok"
    /\ \E j \in 1..Len(meshes) :
          /\ Aligned(models[j])
          /\ Len(models[j].positions) = 6
          /\ Len(models[j].indices) = 3
          /\ Len(buffers[meshes[j].vertex_buffer].contents) = 2

\* C7: for a primitive whose buffer source is an external URI, load_gltf
\* uploads the slice of the fetched buffer, or returns a BufferSliceError
\* when the fetched buffer is too short.
C7_ExternalBufferSlice ==
    (Ended /\ AtPrimitive /\ CurPrimitive.source = "Uri")
        => \/ result = Err("BufferSliceError")
           \/ (result.kind # "Panic" /\ buffers # <<>>)

\* C8: for a primitive whose buffer source is the embedded binary blob,
\* load_gltf ends by returning an UnsupportedFormat error.
C8_EmbeddedUnsupported ==
    (Ended /\ AtPrimitive /\ CurPrimitive.source = "Bin")
        => result = Err("UnsupportedFormat")

RetrievalsInFlight ==
    Cardinality(retrieving)
        + (IF pc \in {"load_obj", "mtl_callback"} THEN 1 ELSE 0)

\* C10: material loads are sequential in material order: a texture
\* retrieval in flight is that of the first material not yet pushed, an
\* allocator call in progress belongs to that same material, and at most
\* one retrieval and at most one allocator call are in progress.
C10_SequentialMaterials ==
    fn = "load_model" =>
        /\ RetrievalsInFlight <= 1
        /\ Cardinality(allocating) <= 1
        /\ \A k \in retrieving : k = Len(materials)
        /\ \A c \in allocating : c[2] = Len(materials)

\* the retrieval for the second material is in flight after the first
\* material's bind group was created and the material pushed
C10_Witness ==
    /\ fn = "load_model"
    /\ retrieving = {1}
    /\ Len(materials) = 1
    /\ allocating = {}
====
